---------------------------- MODULE Spec2Model ----------------------------
(***************************************************************************)
(* TidyPilot: the profiling engine (analyzeDataset) and the auto-clean     *)
(* transform (performAutoClean) of services/dataProcessing, with the       *)
(* helpers they call.                                                       *)
(*                                                                          *)
(* Representation.                                                          *)
(*  - A text is a sequence of characters; a character is a one-character    *)
(*    string, except "euro" (the euro sign) and "approx" (the almost-equal  *)
(*    sign), which are written as tokens.  The characters the model knows   *)
(*    are listed in Chars.  Chars holds no ".", no upper-case "I" and no    *)
(*    ":", so that over Chars a numeric literal is an integer literal, an   *)
(*    exponent literal or a radix literal, "Infinity" cannot be spelled,    *)
(*    and an ISO date has no time part.                                     *)
(*  - A JavaScript value is a record [k, s, n]: k is the kind, s the text   *)
(*    of a string, n the value of an integer number or a boolean (1/0).     *)
(*  - A row (a JavaScript object) is the sequence of its own properties in  *)
(*    insertion order, each [key, val].  Column names are never array       *)
(*    indices, so Object.keys lists them in insertion order.                *)
(***************************************************************************)
EXTENDS Integers, Sequences, FiniteSets, TLC

-----------------------------------------------------------------------------
(* Characters and texts *)

Digits == {"0", "1", "2", "3", "4", "5", "6", "7", "8", "9"}

LowerLetters ==
    <<"a", "b", "c", "d", "e", "f", "g", "h", "i", "j", "k", "l", "m",
      "n", "o", "p", "q", "r", "s", "t", "u", "v", "w", "x", "y", "z">>

UpperLetters ==
    <<"A", "B", "C", "D", "E", "F", "G", "H", "I", "J", "K", "L", "M",
      "N", "O", "P", "Q", "R", "S", "T", "U", "V", "W", "X", "Y", "Z">>

WhiteSpace == {" ", "\t"}

Chars ==
    Digits \cup {LowerLetters[i] : i \in 1..26} \cup {"A", "N", "U"}
           \cup WhiteSpace \cup {",", "$", "euro", "-", "+", "?", "/", "_"}

\* String.prototype.toLowerCase, one character
LowerChar(c) ==
    IF \E i \in 1..26 : UpperLetters[i] = c
    THEN LowerLetters[CHOOSE i \in 1..26 : UpperLetters[i] = c]
    ELSE c

\* String.prototype.toLowerCase
RECURSIVE ToLowerCase(_)
ToLowerCase(s) ==
    IF s = <<>> THEN <<>> ELSE <<LowerChar(Head(s))>> \o ToLowerCase(Tail(s))

RECURSIVE TrimStart(_)
TrimStart(s) ==
    IF s # <<>> /\ Head(s) \in WhiteSpace THEN TrimStart(Tail(s)) ELSE s

RECURSIVE TrimEnd(_)
TrimEnd(s) ==
    IF s # <<>> /\ s[Len(s)] \in WhiteSpace
    THEN TrimEnd(SubSeq(s, 1, Len(s) - 1))
    ELSE s

\* String.prototype.trim
Trim(s) == TrimEnd(TrimStart(s))

\* s.replace(/c/g, '')
RECURSIVE RemoveAll(_, _)
RemoveAll(s, c) ==
    IF s = <<>> THEN <<>>
    ELSE IF Head(s) = c THEN RemoveAll(Tail(s), c)
    ELSE <<Head(s)>> \o RemoveAll(Tail(s), c)

\* s.replace('c', ''): the first occurrence only
RECURSIVE RemoveFirst(_, _)
RemoveFirst(s, c) ==
    IF s = <<>> THEN <<>>
    ELSE IF Head(s) = c THEN Tail(s)
    ELSE <<Head(s)>> \o RemoveFirst(Tail(s), c)

\* items.join(sep)
RECURSIVE Join(_, _)
Join(items, sep) ==
    IF items = <<>> THEN <<>>
    ELSE IF Len(items) = 1 THEN items[1]
    ELSE items[1] \o sep \o Join(Tail(items), sep)

\* arr.slice(0, n)
Slice(seq, n) == SubSeq(seq, 1, IF Len(seq) < n THEN Len(seq) ELSE n)

\* the sum of seq[lo..hi], by halves
RECURSIVE SumRange(_, _, _)
SumRange(seq, lo, hi) ==
    IF lo > hi THEN 0
    ELSE IF lo = hi THEN seq[lo]
    ELSE SumRange(seq, lo, (lo + hi) \div 2) + SumRange(seq, ((lo + hi) \div 2) + 1, hi)

SumSeq(seq) == SumRange(seq, 1, Len(seq))

\* a sequence given by a rule, as the array of its elements
Array(seq) == seq \o <<>>

\* the elements of seq at the given indices, in their order
pick(seq, indices) == Array([p \in 1..Len(indices) |-> seq[indices[p]]])

\* the indices at which an element of seq occurs for the first time
FirstIndices(seq) ==
    LET IsFirst(i) == \A j \in 1..(i - 1) : seq[j] # seq[i]
    IN  SelectSeq(Array([i \in 1..Len(seq) |-> i]), IsFirst)

\* the first occurrences of the elements of seq, in order
Distinct(seq) == pick(seq, FirstIndices(seq))

\* The place of each element in a stable ascending sort by weight: one more
\* than the number of elements that come before it.
StableRank(weights) ==
    Array([i \in 1..Len(weights) |->
              1 + Cardinality({j \in 1..Len(weights) :
                      \/ weights[j] < weights[i]
                      \/ weights[j] = weights[i] /\ j < i})])

\* seq with each element moved to its place
Placed(seq, rank) ==
    Array([k \in 1..Len(seq) |-> seq[CHOOSE i \in 1..Len(seq) : rank[i] = k]])

-----------------------------------------------------------------------------
(* JavaScript values *)

Null      == [k |-> "null",      s |-> <<>>, n |-> 0]
Undefined == [k |-> "undefined", s |-> <<>>, n |-> 0]
NaN       == [k |-> "NaN",       s |-> <<>>, n |-> 0]
\* a finite number that is not an integer; its magnitude is not tracked
Fraction  == [k |-> "fraction",  s |-> <<>>, n |-> 0]
Str(s)    == [k |-> "string",    s |-> s,    n |-> 0]
Num(n)    == [k |-> "number",    s |-> <<>>, n |-> n]
Bool(b)   == [k |-> "boolean",   s |-> <<>>, n |-> IF b THEN 1 ELSE 0]

DigitChars ==
    <<"0", "1", "2", "3", "4", "5", "6", "7", "8", "9",
      "a", "b", "c", "d", "e", "f">>

DigitVal(c) == (CHOOSE i \in 1..16 : DigitChars[i] = LowerChar(c)) - 1

IsDigitIn(c, radix) == \E i \in 1..radix : DigitChars[i] = LowerChar(c)

AllDigitsIn(s, radix) == \A i \in 1..Len(s) : IsDigitIn(s[i], radix)

RECURSIVE RadixVal(_, _)
RadixVal(s, radix) ==
    IF s = <<>> THEN 0
    ELSE radix * RadixVal(SubSeq(s, 1, Len(s) - 1), radix) + DigitVal(s[Len(s)])

RECURSIVE Pow10(_)
Pow10(e) == IF e = 0 THEN 1 ELSE 10 * Pow10(e - 1)

\* Number::toString for an integer
RECURSIVE NatText(_)
NatText(n) ==
    IF n < 10 THEN <<DigitChars[n + 1]>>
    ELSE NatText(n \div 10) \o <<DigitChars[(n % 10) + 1]>>

IntText(n) == IF n < 0 THEN <<"-">> \o NatText(-n) ELSE NatText(n)

\* String(val)
ToText(v) ==
    CASE v.k = "string"    -> v.s
      [] v.k = "number"    -> IntText(v.n)
      [] v.k = "NaN"       -> <<"N", "a", "N">>
      [] v.k = "boolean"   -> IF v.n = 1 THEN <<"t", "r", "u", "e">>
                                         ELSE <<"f", "a", "l", "s", "e">>
      [] v.k = "null"      -> <<"n", "u", "l", "l">>
      [] v.k = "undefined" -> <<"u", "n", "d", "e", "f", "i", "n", "e", "d">>

\* the longest prefix of s made of decimal digits
RECURSIVE DigitRun(_)
DigitRun(s) ==
    IF s # <<>> /\ Head(s) \in Digits THEN <<Head(s)>> \o DigitRun(Tail(s))
    ELSE <<>>

Drop(s, n) == SubSeq(s, n + 1, Len(s))

\* the value mant * 10^exp
Scaled(mant, exp) ==
    IF exp >= 0 THEN Num(mant * Pow10(exp))
    ELSE IF mant % Pow10(-exp) = 0 THEN Num(mant \div Pow10(-exp))
    ELSE Fraction

\* the sign of a literal and the literal without it
SignOf(s) == IF s # <<>> /\ Head(s) = "-" THEN -1 ELSE 1

Unsigned(s) == IF s # <<>> /\ Head(s) \in {"+", "-"} THEN Tail(s) ELSE s

\* the digits of an exponent part, given the text after its "e"
ExponentDigits(afterE) == DigitRun(Unsigned(afterE))

\* after starts with a complete exponent part
HasExponent(after) ==
    /\ after # <<>>
    /\ Head(after) \in {"e", "E"}
    /\ ExponentDigits(Tail(after)) # <<>>

DecimalWithExponent(sign, mant, afterE) ==
    [ok |-> TRUE,
     val |-> Scaled(sign * RadixVal(mant, 10),
                    SignOf(afterE) * RadixVal(ExponentDigits(afterE), 10)),
     rest |-> Drop(Unsigned(afterE), Len(ExponentDigits(afterE)))]

DecimalFrom(sign, mant, after) ==
    IF mant = <<>> THEN [ok |-> FALSE, val |-> NaN, rest |-> <<>>]
    ELSE IF HasExponent(after) THEN DecimalWithExponent(sign, mant, Tail(after))
    ELSE [ok |-> TRUE, val |-> Num(sign * RadixVal(mant, 10)), rest |-> after]

DecimalBody(sign, body) ==
    DecimalFrom(sign, DigitRun(body), Drop(body, Len(DigitRun(body))))

\* The StrDecimalLiteral that is a prefix of s (sign, digits, exponent), as
\* [ok, val, rest]: ok is FALSE when s starts with no digits.
DecimalPrefix(s) == DecimalBody(SignOf(s), Unsigned(s))

\* a radix literal 0x.., 0o.., 0b..: its radix, or 0
RadixOf(s) ==
    IF Len(s) >= 2 /\ s[1] = "0"
    THEN CASE LowerChar(s[2]) = "x" -> 16
           [] LowerChar(s[2]) = "o" -> 8
           [] LowerChar(s[2]) = "b" -> 2
           [] OTHER -> 0
    ELSE 0

RadixLiteral(digits, radix) ==
    IF digits # <<>> /\ AllDigitsIn(digits, radix)
    THEN Num(RadixVal(digits, radix))
    ELSE NaN

\* a decimal literal that is the whole text
WholeDecimal(p) == IF p.ok /\ p.rest = <<>> THEN p.val ELSE NaN

NumberOfTrimmed(t) ==
    IF t = <<>> THEN Num(0)
    ELSE IF RadixOf(t) # 0 THEN RadixLiteral(Drop(t, 2), RadixOf(t))
    ELSE WholeDecimal(DecimalPrefix(t))

\* Number(text): StringToNumber
NumberOf(s) == NumberOfTrimmed(Trim(s))

\* parseFloat(text): the longest decimal literal at the start, else NaN
ParseFloat(s) == DecimalPrefix(TrimStart(s)).val

-----------------------------------------------------------------------------
(* Normalization and the type classifiers *)

MISSING_TOKENS ==
    { <<>>,
      <<"n", "u", "l", "l">>,
      <<"n", "a", "n">>,
      <<"n", "/", "a">>,
      <<"n", "a">>,
      <<"n", "o", "n", "e">>,
      <<"-">>,
      <<"-", "-">>,
      <<"?">> }

\* normalizeValue with the missing tokens looked up on the text as given
normalizeValueRawTokens(val) ==
    IF val.k \in {"null", "undefined"} THEN Null
    ELSE IF val.k = "string"
    THEN IF Len(Trim(val.s)) = 0 \/ ToLowerCase(val.s) \in MISSING_TOKENS
         THEN Null
         ELSE Str(Trim(val.s))
    ELSE val

normalizeValue(val) ==
    IF val.k \in {"null", "undefined"} THEN Null
    ELSE IF val.k = "string"
    THEN LET trimmed == Trim(val.s)
         IN  IF Len(trimmed) = 0 \/ ToLowerCase(trimmed) \in MISSING_TOKENS
             THEN Null
             ELSE Str(trimmed)
    ELSE val

\* !val
Falsy(val) ==
    \/ val.k \in {"null", "undefined", "NaN"}
    \/ val.k = "string" /\ val.s = <<>>
    \/ val.k = "number" /\ val.n = 0
    \/ val.k = "boolean" /\ val.n = 0

\* /^-?\d+(\.\d+)?$/ over Chars, which holds no "."
NumericPattern(s) ==
    LET body == IF s # <<>> /\ Head(s) = "-" THEN Tail(s) ELSE s
    IN  body # <<>> /\ \A i \in 1..Len(body) : body[i] \in Digits

\* Date.parse of a text in the date-only forms of the Date Time String
\* Format: YYYY, YYYY-MM and YYYY-MM-DD (month 01..12, day 01..31), the year
\* being four digits or a sign and six digits (an expanded year; -000000 is
\* not one).  Any other text is taken as unparseable: the texts of the input
\* universe hold no other form an engine's fallback parser accepts.
IsoDate(s) ==
    LET signed == s # <<>> /\ Head(s) \in {"+", "-"}
        y == IF signed THEN 7 ELSE 4
        digitsAt(i, j) == \A p \in i..j : s[p] \in Digits
        month == RadixVal(SubSeq(s, y + 2, y + 3), 10)
        day   == RadixVal(SubSeq(s, y + 5, y + 6), 10)
    IN  /\ Len(s) \in {y, y + 3, y + 6}
        /\ digitsAt(IF signed THEN 2 ELSE 1, y)
        /\ ~(Head(s) = "-" /\ RadixVal(SubSeq(s, 2, y), 10) = 0)
        /\ Len(s) >= y + 3 => (s[y + 1] = "-" /\ digitsAt(y + 2, y + 3) /\ month \in 1..12)
        /\ Len(s) = y + 6 => (s[y + 4] = "-" /\ digitsAt(y + 5, y + 6) /\ day \in 1..31)

\* new Date(text).getFullYear() of a parseable text
DateYear(s) ==
    IF Head(s) \in {"+", "-"} THEN SignOf(s) * RadixVal(SubSeq(s, 2, 7), 10)
    ELSE RadixVal(SubSeq(s, 1, 4), 10)

YEAR_MIN == 1900
YEAR_MAX == 2100
DATE_MIN_LENGTH == 5

\* new Date(val) is valid and its year is in range.  A number or a boolean
\* makes a valid Date (a time value near the epoch, whose year is in range).
IsPlausibleDate(val) ==
    IF val.k = "string"
    THEN IsoDate(val.s) /\ DateYear(val.s) >= YEAR_MIN /\ DateYear(val.s) <= YEAR_MAX
    ELSE TRUE

\* String(val).length > 5 && !/^-?\d+(\.\d+)?$/.test(String(val))
LooksLikeDate(text) == Len(text) > DATE_MIN_LENGTH /\ ~NumericPattern(text)

isDate(val) ==
    IF Falsy(val) THEN FALSE
    ELSE IsPlausibleDate(val) /\ LooksLikeDate(ToText(val))

\* String(val).replace(/,/g, '').replace('$', '').replace('€', '')
StripNumberText(s) == RemoveFirst(RemoveFirst(RemoveAll(s, ","), "$"), "euro")

\* !isNaN(Number(clean)) && clean.trim() !== ''
IsNumericText(clean) == NumberOf(clean).k # "NaN" /\ Trim(clean) # <<>>

isNumber(val) ==
    IF val.k \in {"null", "undefined"} \/ (val.k = "string" /\ val.s = <<>>)
    THEN FALSE
    ELSE IF val.k = "fraction" THEN TRUE
    ELSE IsNumericText(StripNumberText(ToText(val)))

\* String(v).toLowerCase() === 'true' || String(v).toLowerCase() === 'false'
isBooleanLiteral(val) ==
    ToLowerCase(ToText(val)) \in {<<"t", "r", "u", "e">>, <<"f", "a", "l", "s", "e">>}

-----------------------------------------------------------------------------
(* Rows *)

\* Object.keys(row)
Keys(row) == [i \in 1..Len(row) |-> row[i].key]

HasKey(row, key) == \E i \in 1..Len(row) : row[i].key = key

\* row[key]
Get(row, key) ==
    IF HasKey(row, key)
    THEN row[CHOOSE i \in 1..Len(row) : row[i].key = key].val
    ELSE Undefined

\* { ...row, [key]: val }
Put(row, key, val) ==
    IF HasKey(row, key)
    THEN [i \in 1..Len(row) |->
             IF row[i].key = key THEN [key |-> key, val |-> val] ELSE row[i]]
    ELSE Append(row, [key |-> key, val |-> val])

\* JSON.stringify of one value: NaN is written null
JsonValue(v) == IF v.k = "NaN" THEN Null ELSE v

\* JSON.stringify(row): the properties in insertion order, those holding
\* undefined left out.  The text is kept as the sequence of its members; two
\* rows have the same text exactly when these sequences are equal.
RECURSIVE jsonStringify(_)
jsonStringify(row) ==
    IF row = <<>> THEN <<>>
    ELSE IF Head(row).val.k = "undefined" THEN jsonStringify(Tail(row))
    ELSE <<[key |-> Head(row).key, val |-> JsonValue(Head(row).val)]>>
            \o jsonStringify(Tail(row))

\* performAutoClean's first map, for one row: every own property normalized
normalizeRow(row) ==
    [j \in 1..Len(row) |-> [key |-> row[j].key, val |-> normalizeValue(row[j].val)]]

-----------------------------------------------------------------------------
(* Statistics helpers *)

\* values.sort((a, b) => a - b): ascending, on integers
SortAsc(values) == Placed(values, StableRank(values))

NoNumericStats == [defined |-> FALSE]

\* The argument is the array after values.sort.  mean and median are kept as
\* exact quotients [num, den]; stdDev is the square root of variance.
calculateNumericStats(sorted) ==
    IF Len(sorted) = 0 THEN NoNumericStats
    ELSE LET len == Len(sorted)
             sum == SumSeq(sorted)
             mid == len \div 2
             squares == SumSeq([i \in 1..len |-> sorted[i] * sorted[i]])
         IN  [defined |-> TRUE,
              min |-> sorted[1],
              max |-> sorted[len],
              mean |-> [num |-> sum, den |-> len],
              median |-> IF len % 2 # 0
                         THEN [num |-> sorted[mid + 1], den |-> 1]
                         ELSE [num |-> sorted[mid] + sorted[mid + 1], den |-> 2],
              variance |-> [num |-> len * squares - sum * sum, den |-> len * len]]

\* one row of the matrix without the substitution term of Math.min
RECURSIVE LevRowWithoutSubstitution(_, _, _, _)
LevRowWithoutSubstitution(prev, cur, a, bch) ==
    LET j == Len(cur)
        ins == cur[j] + 1
        del == prev[j + 1] + 1
        cell == IF bch = a[j] THEN prev[j]
                ELSE IF ins < del THEN ins ELSE del
    IN  IF j > Len(a) THEN cur
        ELSE LevRowWithoutSubstitution(prev, Append(cur, cell), a, bch)

\* One row of the edit-distance matrix from the row above it: cells 0..j-1 of
\* the row are in cur, and the row belongs to character bch of b.
RECURSIVE LevRow(_, _, _, _)
LevRow(prev, cur, a, bch) ==
    LET j == Len(cur)
        sub == prev[j] + 1
        ins == cur[j] + 1
        del == prev[j + 1] + 1
        insdel == IF ins < del THEN ins ELSE del
        cell == IF bch = a[j] THEN prev[j]
                ELSE IF sub < insdel THEN sub ELSE insdel
    IN  IF j > Len(a) THEN cur ELSE LevRow(prev, Append(cur, cell), a, bch)

\* rows i..b.length of the matrix, given row i-1
RECURSIVE LevRows(_, _, _, _)
LevRows(prev, i, a, b) ==
    IF i > Len(b) THEN prev
    ELSE LevRows(LevRow(prev, <<i>>, a, b[i]), i + 1, a, b)

levenshteinDistance(a, b) ==
    LevRows([j \in 1..(Len(a) + 1) |-> j - 1], 1, a, b)[Len(a) + 1]

Sensitivities == {"Low", "Medium", "High"}

\* twice the multiplier 1.5, whatever the sensitivity
DefaultMultiplier2(sensitivity) == 3

\* twice the multipliers with Low and High exchanged
InvertedMultiplier2(sensitivity) ==
    CASE sensitivity = "Low" -> 2
      [] sensitivity = "High" -> 6
      [] OTHER -> 3

\* twice the fence multiplier: 3.0, 1.5, 1.0
Multiplier2(sensitivity) ==
    CASE sensitivity = "Low" -> 6
      [] sensitivity = "High" -> 2
      [] OTHER -> 3

\* sorted[Math.floor(sorted.length * pct / 100)]
Quartile(sorted, pct) == sorted[((Len(sorted) * pct) \div 100) + 1]

\* The fence test v < q1 - iqr * multiplier || v > q3 + iqr * multiplier is
\* taken with both sides doubled, which keeps it in the integers.
IsOutlier(v, q1, q3, multiplier2) ==
    \/ 2 * v < 2 * q1 - (q3 - q1) * multiplier2
    \/ 2 * v > 2 * q3 + (q3 - q1) * multiplier2

outliersBetween(values, q1, q3, multiplier2) ==
    LET outside(v) == IsOutlier(v, q1, q3, multiplier2)
    IN  SelectSeq(values, outside)

outliersOf(values, sorted, multiplier2) ==
    outliersBetween(values, Quartile(sorted, 25), Quartile(sorted, 75), multiplier2)

findOutliers(values, sensitivity) ==
    IF Len(values) < 5 THEN <<>>
    ELSE outliersOf(values, SortAsc(values), Multiplier2(sensitivity))

-----------------------------------------------------------------------------
(* Plain objects used as maps: counts and lowerMap *)

\* A property name that is an array index (a canonical integer text).  Texts
\* of more than 9 digits are not in the input universe.
IsArrayIndex(s) ==
    /\ s # <<>> /\ Len(s) <= 9
    /\ \A i \in 1..Len(s) : s[i] \in Digits
    /\ (s[1] = "0" => Len(s) = 1)

\* array-index keys in ascending numeric order
SortIndexKeys(keys) == Placed(keys, StableRank(Array([i \in 1..Len(keys) |-> RadixVal(keys[i], 10)])))

\* Object.keys order of an object whose own keys were inserted in the order
\* of keys: array indices ascending, then the others in insertion order
OwnKeyOrder(keys) ==
    SortIndexKeys(SelectSeq(keys, IsArrayIndex)) \o SelectSeq(keys, LAMBDA s : ~IsArrayIndex(s))

\* Property names a plain object inherits from Object.prototype, as far as
\* they can be spelled over Chars.
PROTO       == <<"_", "_", "p", "r", "o", "t", "o", "_", "_">>
CONSTRUCTOR == <<"c", "o", "n", "s", "t", "r", "u", "c", "t", "o", "r">>
InheritedProps == {PROTO, CONSTRUCTOR}

-----------------------------------------------------------------------------
(* analyzeDataset, one column *)

\* rawValues.map(normalizeValue)
normalizedValuesOf(data, colName) ==
    [i \in 1..Len(data) |-> normalizeValue(Get(data[i], colName))]

\* the cells that are not null as given, before normalization
rawDefinedValuesOf(data, colName) ==
    SelectSeq([i \in 1..Len(data) |-> Get(data[i], colName)], LAMBDA v : v.k # "null")

\* normalizedValues.filter(v => v !== null)
definedValuesOf(data, colName) ==
    SelectSeq(normalizedValuesOf(data, colName), LAMBDA v : v.k # "null")

\* rowCount - definedValues.length
missingCountOf(rowCount, defined) == rowCount - Len(defined)

\* The tallies of the forEach: a value is counted by the first test it passes.
numCountOf(defined) == Cardinality({i \in 1..Len(defined) : isNumber(defined[i])})

dateCountOf(defined) ==
    Cardinality({i \in 1..Len(defined) : ~isNumber(defined[i]) /\ isDate(defined[i])})

boolCountOf(defined) ==
    Cardinality({i \in 1..Len(defined) :
        ~isNumber(defined[i]) /\ ~isDate(defined[i]) /\ isBooleanLiteral(defined[i])})

\* count / definedCount >= 0.8
ReachesInferenceThreshold(count, definedCount) == 10 * count >= 8 * definedCount

\* count / definedCount > 0.6
ExceedsLooseThreshold(count, definedCount) == 10 * count > 6 * definedCount

\* count / definedCount > 0.8, in tenths
ExceedsInferenceThreshold(count, definedCount) == 10 * count > 8 * definedCount

\* the inference with every comparison >= 0.8
inferTypeNonStrict(numCount, dateCount, boolCount, definedCount) ==
    IF definedCount > 0
    THEN IF ReachesInferenceThreshold(numCount, definedCount) THEN "number"
         ELSE IF ReachesInferenceThreshold(dateCount, definedCount) THEN "date"
         ELSE IF ReachesInferenceThreshold(boolCount, definedCount) THEN "boolean"
         ELSE "string"
    ELSE "string"

inferType(numCount, dateCount, boolCount, definedCount) ==
    IF definedCount > 0
    THEN IF ExceedsInferenceThreshold(numCount, definedCount) THEN "number"
         ELSE IF ExceedsInferenceThreshold(dateCount, definedCount) THEN "date"
         ELSE IF ExceedsInferenceThreshold(boolCount, definedCount) THEN "boolean"
         ELSE "string"
    ELSE "string"

inferredTypeOf(defined) ==
    inferType(numCountOf(defined), dateCountOf(defined), boolCountOf(defined),
              Len(defined))

\* An issue without its description, which is a sentence built from count.
Issue(type, severity, count, examples) ==
    [type |-> type, severity |-> severity, count |-> count, examples |-> examples]

\* missingCount / rowCount > 0.2
missingIssues(missingCount, rowCount) ==
    IF missingCount > 0
    THEN <<Issue("missing",
                 IF 10 * missingCount > 2 * rowCount THEN "High" ELSE "Medium",
                 missingCount, <<>>)>>
    ELSE <<>>

\* nonNums / nonDates
violatorsOf(defined, inferredType) ==
    IF inferredType = "number" THEN SelectSeq(defined, LAMBDA v : ~isNumber(v))
    ELSE IF inferredType = "date" THEN SelectSeq(defined, LAMBDA v : ~isDate(v))
    ELSE <<>>

definedTextsOf(defined) == Array([i \in 1..Len(defined) |-> ToText(defined[i])])

\* the issue raised from violations / definedCount >= 0.05
mixedTypeIssuesOfNonStrict(violators, definedCount) ==
    IF definedCount > 0 /\ 100 * Len(violators) >= 5 * definedCount
    THEN <<Issue("mixed_types", "High", Len(violators),
                 definedTextsOf(Slice(violators, 3)))>>
    ELSE <<>>

\* violations / definedCount > 0.05, in hundredths
mixedTypeIssuesOf(violators, definedCount) ==
    IF definedCount > 0 /\ 100 * Len(violators) > 5 * definedCount
    THEN <<Issue("mixed_types", "High", Len(violators),
                 definedTextsOf(Slice(violators, 3)))>>
    ELSE <<>>

mixedTypeIssues(defined, inferredType) ==
    mixedTypeIssuesOf(violatorsOf(defined, inferredType), Len(defined))

\* definedValues.map(v => parseFloat(String(v).replace(/,/g, ''))).filter(n => !isNaN(n))
parsedOf(defined) ==
    SelectSeq([i \in 1..Len(defined) |-> ParseFloat(RemoveAll(ToText(defined[i]), ","))],
              LAMBDA n : n.k # "NaN")

\* nums, as integers
numsOf(defined) ==
    LET parsed == parsedOf(defined)
    IN  Array([i \in 1..Len(parsed) |-> parsed[i].n])

\* the issue raised from nums.length >= 5
outlierIssuesOfFiveSamples(outliers, numsCount, sensitivity) ==
    IF numsCount >= 5 /\ Len(outliers) > 0
    THEN <<Issue("outlier",
                 IF sensitivity = "High" THEN "Medium" ELSE "High",
                 Len(outliers),
                 [i \in 1..Len(Slice(outliers, 3)) |-> IntText(outliers[i])])>>
    ELSE <<>>

outlierIssuesOf(outliers, numsCount, sensitivity) ==
    IF numsCount > 5 /\ Len(outliers) > 0
    THEN <<Issue("outlier",
                 IF sensitivity = "High" THEN "Medium" ELSE "High",
                 Len(outliers),
                 [i \in 1..Len(Slice(outliers, 3)) |-> IntText(outliers[i])])>>
    ELSE <<>>

\* findOutliers receives nums after calculateNumericStats has sorted it in place.
outlierIssues(nums, sensitivity) ==
    outlierIssuesOf(findOutliers(SortAsc(nums), sensitivity), Len(nums), sensitivity)

\* new Set(definedValues.map(String)).size
uniqueCountOf(defined) == Cardinality({ToText(defined[i]) : i \in 1..Len(defined)})

\* Object.keys(counts): "__proto__" never becomes an own property of counts,
\* the assignment of a non-object to it being ignored.
countKeysOf(defined) ==
    OwnKeyOrder(SelectSeq(Distinct(definedTextsOf(defined)), LAMBDA s : s # PROTO))

\* Object.entries(counts).  The count of a key that names an inherited
\* property is not a number; a column holding one does not return (see
\* lowerMapThrows), so it is left at the number of occurrences here.
countsIn(keys, texts) ==
    Array([i \in 1..Len(keys) |->
              [value |-> keys[i],
               count |-> Cardinality({p \in 1..Len(texts) : texts[p] = keys[i]})]])

countsOf(defined) == countsIn(countKeysOf(defined), definedTextsOf(defined))

\* .sort((a, b) => b[1] - a[1]): descending by count, stable
SortByCount(entries) == Placed(entries, StableRank(Array([i \in 1..Len(entries) |-> -entries[i].count])))

TOP_CATEGORIES == 10

topCategoriesOf(defined) == Slice(SortByCount(countsOf(defined)), TOP_CATEGORIES)

\* key.toLowerCase().trim()
LowerKey(key) == Trim(ToLowerCase(key))

\* lowerMap[lower] of an inherited name is a function or an object, which is
\* truthy and has no add method: lowerMap[lower].add(key) raises a TypeError.
lowerMapThrows(defined) ==
    LET keys == countKeysOf(defined)
    IN  \E i \in 1..Len(keys) : LowerKey(keys[i]) \in InheritedProps

\* Object.keys(lowerMap)
distinctNormOf(defined) ==
    LET keys == countKeysOf(defined)
    IN  OwnKeyOrder(Distinct(Array([i \in 1..Len(keys) |-> LowerKey(keys[i])])))

\* lowerMap[lower]: the set as the sequence of its members in insertion order
membersOf(keys, lower) ==
    LET IsMember(key) == LowerKey(key) = lower
    IN  SelectSeq(keys, IsMember)

groupsIn(keys, norm) == Array([g \in 1..Len(norm) |-> membersOf(keys, norm[g])])

\* Object.values(lowerMap)
lowerGroupsOf(defined) == groupsIn(countKeysOf(defined), distinctNormOf(defined))

SLASH == <<" ", "/", " ">>
APPROX == <<" ", "approx", " ">>

joinedWith(groups, sep) == [i \in 1..Len(groups) |-> Join(groups[i], sep)]

caseIssuesOf(caseInconsistencies) ==
    IF Len(caseInconsistencies) > 0
    THEN <<Issue("inconsistent_category", "Medium", Len(caseInconsistencies),
                 joinedWith(Slice(caseInconsistencies, 3), SLASH))>>
    ELSE <<>>

caseIssues(defined) == caseIssuesOf(SelectSeq(lowerGroupsOf(defined), LAMBDA set : Len(set) > 1))

FUZZY_MAX_LENGTH_DIFF == 2
FUZZY_MAX_DISTANCE == 2
FUZZY_MIN_ANCHOR_LENGTH == 3
FUZZY_MAX_UNIQUE == 500

\* the test of the inner loop without the test of the anchor's length
joinsShortAnchors(norm, i, j, used) ==
    /\ norm[j] \notin used
    /\ Len(norm[i]) - Len(norm[j]) \in (-FUZZY_MAX_LENGTH_DIFF)..FUZZY_MAX_LENGTH_DIFF
    /\ levenshteinDistance(norm[i], norm[j]) <= FUZZY_MAX_DISTANCE

\* The test of the inner loop for anchor i and candidate j.  The anchor's
\* length is tested before the distance is computed; the tests have no effects.
joins(norm, i, j, used) ==
    /\ norm[j] \notin used
    /\ Len(norm[i]) - Len(norm[j]) \in (-FUZZY_MAX_LENGTH_DIFF)..FUZZY_MAX_LENGTH_DIFF
    /\ Len(norm[i]) > FUZZY_MIN_ANCHOR_LENGTH
    /\ levenshteinDistance(norm[i], norm[j]) <= FUZZY_MAX_DISTANCE

\* the inner loop for anchor i: the later keys that join its group
fuzzyMembers(norm, i, used) ==
    LET joining(j) == joins(norm, i, j, used)
    IN  pick(norm, SelectSeq([p \in 1..(Len(norm) - i) |-> i + p], joining))

\* the end of the outer loop's body without used.add
fuzzyWithoutUsed(norm, i, st, members) ==
    [used |-> st.used,
     groups |-> IF members # <<>> THEN Append(st.groups, <<norm[i]>> \o members)
                ELSE st.groups]

\* the end of the outer loop's body for anchor i
fuzzyWith(norm, i, st, members) ==
    [used |-> st.used \cup {members[p] : p \in 1..Len(members)},
     groups |-> IF members # <<>> THEN Append(st.groups, <<norm[i]>> \o members)
                ELSE st.groups]

\* one pass of the outer loop's body, on the loop's state [used, groups]
fuzzyStep(norm, i, st) ==
    IF norm[i] \in st.used THEN st
    ELSE fuzzyWith(norm, i, st, fuzzyMembers(norm, i, st.used))

\* The passes lo..hi of the outer loop, in order: lo..mid, then mid+1..hi.
\* A pass whose key is used continues, so passes whose keys are all used
\* leave the state as it is.
RECURSIVE fuzzyLoop(_, _, _, _)
fuzzyLoop(norm, lo, hi, st) ==
    IF \A i \in lo..hi : norm[i] \in st.used THEN st
    ELSE IF lo = hi THEN fuzzyStep(norm, lo, st)
    ELSE fuzzyLoop(norm, ((lo + hi) \div 2) + 1, hi,
                   fuzzyLoop(norm, lo, (lo + hi) \div 2, st))

fuzzyGroupsOf(defined) ==
    LET distinctNorm == distinctNormOf(defined)
    IN  fuzzyLoop(distinctNorm, 1, Len(distinctNorm), [used |-> {}, groups |-> <<>>]).groups

fuzzyIssuesOf(fuzzyGroups, uniqueCount) ==
    IF uniqueCount < FUZZY_MAX_UNIQUE /\ uniqueCount > 1 /\ Len(fuzzyGroups) > 0
    THEN <<Issue("inconsistent_category", "Low", Len(fuzzyGroups),
                 joinedWith(Slice(fuzzyGroups, 3), APPROX))>>
    ELSE <<>>

fuzzyIssues(defined) == fuzzyIssuesOf(fuzzyGroupsOf(defined), uniqueCountOf(defined))

NoTopCategories == [defined |-> FALSE]

\* issues, in the order of the pushes
issuesOf(rowCount, defined, inferredType, sensitivity) ==
    missingIssues(missingCountOf(rowCount, defined), rowCount)
    \o mixedTypeIssues(defined, inferredType)
    \o (IF inferredType = "number"
        THEN outlierIssues(numsOf(defined), sensitivity)
        ELSE <<>>)
    \o (IF inferredType = "string"
        THEN caseIssues(defined) \o fuzzyIssues(defined)
        ELSE <<>>)

\* the object the callback returns
profileOf(colName, rowCount, defined, inferredType, sensitivity) ==
    [name |-> colName,
     inferredType |-> inferredType,
     missingCount |-> missingCountOf(rowCount, defined),
     uniqueCount |-> uniqueCountOf(defined),
     issues |-> issuesOf(rowCount, defined, inferredType, sensitivity),
     topCategories |->
        IF inferredType = "string"
        THEN [defined |-> TRUE, items |-> topCategoriesOf(defined)]
        ELSE NoTopCategories,
     numericStats |->
        IF inferredType = "number"
        THEN calculateNumericStats(SortAsc(numsOf(defined)))
        ELSE NoNumericStats]

typedProfile(colName, rowCount, defined, inferredType, sensitivity) ==
    IF inferredType = "string" /\ lowerMapThrows(defined)
    THEN [threw |-> TRUE, profile |-> [name |-> colName]]
    ELSE [threw |-> FALSE,
          profile |-> profileOf(colName, rowCount, defined, inferredType, sensitivity)]

definedProfile(colName, rowCount, defined, sensitivity) ==
    typedProfile(colName, rowCount, defined, inferredTypeOf(defined), sensitivity)

\* The callback of headers.map for one column, as [threw, profile]: threw
\* says that the callback raised a TypeError instead of returning.
columnProfile(data, colName, settings) ==
    definedProfile(colName, Len(data), definedValuesOf(data, colName),
                   settings.outlierSensitivity)

-----------------------------------------------------------------------------
(* analyzeDataset *)

EmptyStats ==
    [rowCount |-> 0, columnCount |-> 0, totalMissingCells |-> 0,
     duplicateRows |-> 0, columns |-> <<>>]

\* the duplicates counted on the rows after normalization
duplicateNormalizedRowsOf(data) ==
    Len(data) - Cardinality({jsonStringify(normalizeRow(data[i])) : i \in 1..Len(data)})

\* rowCount - uniqueRowStrings.size
duplicateRowsOf(data) ==
    Len(data) - Cardinality({jsonStringify(data[i]) : i \in 1..Len(data)})

\* headers.map
columnResults(data, headers, settings) ==
    Array([h \in 1..Len(headers) |-> columnProfile(data, headers[h], settings)])

\* the object analyzeDataset returns
statsOf(data, columns) ==
    [rowCount |-> Len(data),
     columnCount |-> Len(columns),
     totalMissingCells |-> SumSeq([h \in 1..Len(columns) |-> columns[h].missingCount]),
     duplicateRows |-> duplicateRowsOf(data),
     columns |-> columns]

analysisOf(data, results) ==
    IF \E h \in 1..Len(results) : results[h].threw
    THEN [threw |-> TRUE, stats |-> EmptyStats]
    ELSE [threw |-> FALSE, stats |-> statsOf(data, Array([h \in 1..Len(results) |-> results[h].profile]))]

\* analyzeDataset without its guard for no rows: Object.keys(data[0]) raises a
\* TypeError when data[0] is undefined
analyzeDatasetUnguarded(data, settings) ==
    IF Len(data) = 0 THEN [threw |-> TRUE, stats |-> EmptyStats]
    ELSE analysisOf(data, columnResults(data, Keys(data[1]), settings))

\* The result as [threw, stats]: threw says that analyzeDataset raised a
\* TypeError (from a column) instead of returning.
analyzeDataset(data, settings) ==
    IF Len(data) = 0 THEN [threw |-> FALSE, stats |-> EmptyStats]
    ELSE analysisOf(data, columnResults(data, Keys(data[1]), settings))

-----------------------------------------------------------------------------
(* performAutoClean *)

UNKNOWN == <<"U", "n", "k", "n", "o", "w", "n">>

jsonTextsOf(rows) == Array([i \in 1..Len(rows) |-> jsonStringify(rows[i])])

\* The indices the seen-set filter keeps: a row is kept when no earlier row
\* has the same JSON text.
keptIndices(rows) == FirstIndices(jsonTextsOf(rows))

\* the filter keeping the last row of each JSON text instead of the first
removeDuplicatesKeepLast(rows) ==
    LET texts == jsonTextsOf(rows)
        IsLast(i) == \A j \in (i + 1)..Len(texts) : texts[j] # texts[i]
    IN  pick(rows, SelectSeq(Array([i \in 1..Len(rows) |-> i]), IsLast))

removeDuplicates(rows) == pick(rows, keptIndices(rows))

\* parseFloat(String(val).replace(/,/g, '').replace('$', ''))
coerceNumber(val) == ParseFloat(RemoveFirst(RemoveAll(ToText(val), ","), "$"))

\* the cell after the type-coercion branches
typedCell(val, inferredType) ==
    IF inferredType = "number"
    THEN IF val.k # "null" /\ isNumber(val) THEN coerceNumber(val)
         ELSE IF val.k # "null" THEN Null
         ELSE val
    ELSE IF inferredType = "string" /\ val.k # "null"
    THEN Str(Trim(ToText(val)))
    ELSE val

\* the cell without the fill
unfilledCell(typed, inferredType) == typed

\* if (val === null && col.inferredType === 'string') val = 'Unknown'
filledCell(typed, inferredType) ==
    IF typed.k = "null" /\ inferredType = "string" THEN Str(UNKNOWN) ELSE typed

\* the body of the inner map for one cell
cleanCell(val, inferredType) == filledCell(typedCell(val, inferredType), inferredType)

cleanColumn(rows, col) ==
    Array([i \in 1..Len(rows) |->
              Put(rows[i], col.name, cleanCell(Get(rows[i], col.name), col.inferredType))])

\* stats.columns.forEach, from column c on
RECURSIVE cleanColumnsFrom(_, _, _)
cleanColumnsFrom(rows, columns, c) ==
    IF c > Len(columns) THEN rows
    ELSE cleanColumnsFrom(cleanColumn(rows, columns[c]), columns, c + 1)

\* data.map(row => ...)
normalizedRowsOf(data) == Array([i \in 1..Len(data) |-> normalizeRow(data[i])])

performAutoClean(data, stats) ==
    cleanColumnsFrom(removeDuplicates(normalizedRowsOf(data)), stats.columns, 1)

-----------------------------------------------------------------------------
(* The inputs *)

\* rows of the generated one-column tables
MaxRows == 3
\* numeric and non-numeric cells of the tally tables
MaxNumeric == 9
MaxJunk == 2
\* characters of the texts given to the normalizer
MaxTextLen == 3
\* numbers of the samples given to findOutliers
MaxSample == 5

AGE == "age"
NAME == "name"

\* the non-numeric cell of the tally tables
THIRTY == <<"t", "h", "i", "r", "t", "y">>

\* the cells of the generated one-column tables
CellValues ==
    { Null,
      Str(<<" ", "N", "/", "A">>),
      Str(<<"1", ",", "0", "0", "0">>),
      Str(<<"1", "0", "0", "0">>),
      Str(<<"euro", "5">>),
      Str(<<"$", "5", " ">>),
      Str(<<" ", "a", "b">>),
      Str(<<"2", "0", "2", "0", "-", "0", "1", "-", "1", "5">>),
      Str(CONSTRUCTOR) }

OneColumnRow(v) == <<[key |-> AGE, val |-> v]>>

\* k numeric cells "30", "31", ..., then m cells "thirty", then z null cells
TallyTable(k, m, z) ==
    [i \in 1..(k + m + z) |->
        OneColumnRow(IF i <= k THEN Str(NatText(29 + i))
                     ELSE IF i <= k + m THEN Str(THIRTY)
                     ELSE Null)]

\* a hundred defined cells, 79 to 82 of them numeric
PercentTables == {TallyTable(k, 100 - k, 0) : k \in 79..82}

\* rows over two columns: the keys in either insertion order, or name absent
PairRows ==
    LET PairValues == {Null, Str(<<"3", "0">>), Str(<<"a", "b">>)}
    IN  {<<[key |-> AGE, val |-> v], [key |-> NAME, val |-> w]>> :
            v \in PairValues, w \in PairValues}
        \cup {<<[key |-> NAME, val |-> w], [key |-> AGE, val |-> v]>> :
                v \in PairValues, w \in PairValues}
        \cup {<<[key |-> AGE, val |-> v]>> : v \in PairValues}

\* near-duplicate categories: a long pair and a short pair, a third long key,
\* a key of four characters next to one of three
MANAGER  == <<"m", "a", "n", "a", "g", "e", "r">>
MANAGERS == <<"m", "a", "n", "a", "g", "e", "r", "s">>
CAT == <<"c", "a", "t">>
BAT == <<"b", "a", "t">>
MANAGED == <<"m", "a", "n", "a", "g", "e", "d">>
CATS == <<"c", "a", "t", "s">>

\* one-column tables of near-duplicate categories, one cell per text
TableOfTexts(texts) == [i \in 1..Len(texts) |-> OneColumnRow(Str(texts[i]))]

FuzzyTables ==
    { TableOfTexts(<<MANAGER, MANAGERS>>),
      TableOfTexts(<<MANAGERS, MANAGER>>),
      TableOfTexts(<<<<"m", "A", "n", "a", "g", "e", "r">>, MANAGERS, MANAGER, MANAGERS>>),
      TableOfTexts(<<CAT, BAT>>),
      TableOfTexts(<<BAT, <<"C", "A", "T">> \o <<" ">>, CAT>>),
      TableOfTexts(<<MANAGER, MANAGERS, MANAGED>>),
      TableOfTexts(<<CATS, CAT>>),
      TableOfTexts(<<CAT, CATS>>) }

\* Five defined cells: one passes isNumber and isDate (a numeric literal that
\* is an expanded-year date), four pass isDate only.
OverlapTables ==
    LET SIGNED_YEAR == <<"+", "0", "0", "2", "0", "2", "0">>
        ISO_DAY == <<"2", "0", "2", "0", "-", "0", "1", "-", "1", "5">>
    IN  { TableOfTexts(<<SIGNED_YEAR, ISO_DAY, ISO_DAY, ISO_DAY, ISO_DAY>>),
          TableOfTexts(<<ISO_DAY, ISO_DAY, SIGNED_YEAR, ISO_DAY, ISO_DAY>>) }

\* Columns of booleans and of dates with one other cell: four of five cells
\* boolean, five of six boolean, four of five dates, five of six dates.
TypeTables ==
    LET T == <<"t", "r", "u", "e">>
        F == <<"f", "a", "l", "s", "e">>
        D == <<"2", "0", "2", "0", "-", "0", "1", "-", "1", "5">>
        J == <<"a", "b">>
    IN  { TableOfTexts(<<T, F, T, T, J>>),
          TableOfTexts(<<T, F, J, T, F, T>>),
          TableOfTexts(<<D, D, J, D, D>>),
          TableOfTexts(<<D, D, D, D, D, J>>) }

\* Numeric columns with few other cells: one of 19, of 20 and of 21 cells, and
\* four different ones among 24 cells.
MixedTables ==
    {TallyTable(k, 1, 0) : k \in 18..20}
    \cup { [i \in 1..24 |->
              OneColumnRow(IF i = 3 THEN Str(CAT)
                           ELSE IF i = 7 THEN Str(<<"a", "b">>)
                           ELSE IF i = 8 THEN Str(BAT)
                           ELSE IF i = 20 THEN Str(THIRTY)
                           ELSE Str(NatText(29 + i)))] }

\* Numeric columns of five, six and ten cells: one far value, equal values,
\* and a value that is outside the Medium and High fences only.
OutlierTables ==
    {[i \in 1..Len(sample) |-> OneColumnRow(Str(IntText(sample[i])))] :
        sample \in { <<0, 0, 0, 0, 100>>, <<0, 0, 0, 0, 0, 100>>,
                     <<7, 7, 7, 7, 7, 7>>, <<0, 3, 0, 1, 1, 0>>,
                     <<1, 2, 3, 4, 5, 6, 7, 8, 9, 100>> }}

\* The row sets given to analyzeDataset: every table of at most MaxRows rows
\* over CellValues, the empty one included; the tally tables of at most
\* MaxNumeric numeric, MaxJunk non-numeric and one null cell; the percent
\* tables; every table of two pair rows; the fuzzy, the overlap, the type,
\* the mixed and the outlier tables.
DataSets ==
    UNION {[1..n -> {OneColumnRow(v) : v \in CellValues}] : n \in 0..MaxRows}
    \cup {TallyTable(k, m, z) : k \in 0..MaxNumeric, m \in 0..MaxJunk, z \in 0..1}
    \cup PercentTables
    \cup {<<r1, r2>> : r1 \in PairRows, r2 \in PairRows}
    \cup FuzzyTables
    \cup OverlapTables
    \cup TypeTables
    \cup MixedTables
    \cup OutlierTables

Settings == [outlierSensitivity : Sensitivities]

\* the values given to the normalizer: null, undefined, numbers, booleans and
\* every text of at most MaxTextLen characters over six characters
Values ==
    {Null, Undefined, NaN, Num(0), Num(7), Bool(TRUE), Bool(FALSE)}
    \cup {Str(t) : t \in UNION {[1..n -> {" ", "N", "n", "/", "a", "-"}] :
                                    n \in 0..MaxTextLen}}

\* the samples given to findOutliers: a sample of ten values with one far
\* value, and every sequence of at most MaxSample numbers out of four, in any
\* order
\* The strings given to levenshteinDistance: every word of at most MaxWord
\* letters over two letters.
MaxWord == 3

Words == UNION {[1..n -> {"a", "b"}] : n \in 0..MaxWord}

\* The files given to handleDataLoaded: an empty one, a column of categories,
\* a column of numbers and a column on which analyzeDataset raises.
Uploads ==
    { [name |-> "empty.csv", data |-> <<>>],
      [name |-> "roles.csv", data |-> TableOfTexts(<<MANAGER, MANAGERS>>)],
      [name |-> "ages.csv", data |-> TallyTable(2, 1, 0)],
      [name |-> "words.csv", data |-> TableOfTexts(<<CONSTRUCTOR>>)] }

\* the values setSettings is called with
AppSettings == [autoClean : BOOLEAN, strictMode : {FALSE}, outlierSensitivity : Sensitivities]

\* how many times Analyze Data is clicked
MaxRuns == 2

TEN_SAMPLE == <<1, 2, 3, 4, 5, 6, 7, 8, 9, 100>>

Samples ==
    {TEN_SAMPLE}
    \cup UNION {[1..n -> {-100, 0, 1, 3}] : n \in 0..MaxSample}

-----------------------------------------------------------------------------
(* The state: the arguments and the results of the calls *)

VARIABLES
    pc,         \* which calls have been made
    data,       \* analyzeDataset's and performAutoClean's data
    settings,   \* analyzeDataset's settings
    result,     \* what analyzeDataset(data, settings) returned or raised
    cleaned,    \* what performAutoClean(data, result.stats) returned
    result2,    \* what analyzeDataset(cleaned, settings) returned or raised
    cleaned2,   \* what performAutoClean(cleaned, result2.stats) returned
    val,        \* normalizeValue's argument
    once,       \* normalizeValue(val)
    twice,      \* normalizeValue(once)
    values,     \* findOutliers's values
    outliers,   \* findOutliers(values, settings.outlierSensitivity)
    word1,      \* levenshteinDistance's a
    word2,      \* levenshteinDistance's b
    distance,   \* levenshteinDistance(word1, word2)
    step,       \* App's state step
    rawData,    \* App's state rawData
    fileName,   \* App's state fileName
    cleanedData, \* App's state cleanedData, null being [defined |-> FALSE]
    stats,      \* App's state stats, null being [defined |-> FALSE]
    cleaningPlan, \* App's state cleaningPlan, null being [defined |-> FALSE]
    loadingPlan, \* App's state loadingPlan
    calls,      \* the stats of the generateCleaningPlan calls that have not settled
    runs,       \* how many times runAnalysis has been called
    apiKey      \* whether process.env.API_KEY is set

levVars == <<word1, word2, distance>>

appVars == <<step, rawData, fileName, cleanedData, stats, cleaningPlan, loadingPlan,
             calls, runs, apiKey>>

vars == <<pc, data, settings, result, cleaned, result2, cleaned2, val, once, twice,
          values, outliers, levVars, appVars>>

JsNull == [defined |-> FALSE]

\* the state of App when it is mounted, before any event
AppMounted ==
    /\ step = 1
    /\ rawData = <<>>
    /\ fileName = ""
    /\ cleanedData = JsNull
    /\ stats = JsNull
    /\ cleaningPlan = JsNull
    /\ loadingPlan = FALSE
    /\ calls = <<>>
    /\ runs = 0

\* no call of levenshteinDistance on its own
NoWords == word1 = <<>> /\ word2 = <<>> /\ distance = 0

NoResult == [threw |-> FALSE, stats |-> EmptyStats]

Init ==
    /\ pc = "loaded"
    /\ data \in DataSets
    /\ settings \in Settings
    /\ result = NoResult
    /\ cleaned = <<>>
    /\ result2 = NoResult
    /\ cleaned2 = <<>>
    /\ val = Null
    /\ once = Null
    /\ twice = Null
    /\ values = <<>>
    /\ outliers = <<>>
    /\ NoWords
    /\ AppMounted
    /\ apiKey = FALSE

\* const rawStats = analyzeDataset(rawData, settings)
Analyze ==
    /\ pc = "loaded"
    /\ result' = analyzeDataset(data, settings)
    /\ pc' = IF result'.threw THEN "threw" ELSE "analyzed"
    /\ UNCHANGED <<data, settings, cleaned, result2, cleaned2, val, once, twice, values, outliers>>
    /\ UNCHANGED <<levVars, appVars>>

\* performAutoClean with its first map writing the normalized cells into the
\* rows it is given instead of into newRow
AutoCleanInPlace ==
    /\ pc = "analyzed"
    /\ cleaned' = performAutoClean(data, result.stats)
    /\ data' = normalizedRowsOf(data)
    /\ pc' = "cleaned"
    /\ UNCHANGED <<settings, result, result2, cleaned2, val, once, twice, values, outliers>>
    /\ UNCHANGED <<levVars, appVars>>

\* processedData = performAutoClean(rawData, rawStats)
AutoClean ==
    /\ pc = "analyzed"
    /\ cleaned' = performAutoClean(data, result.stats)
    /\ pc' = "cleaned"
    /\ UNCHANGED <<data, settings, result, result2, cleaned2, val, once, twice, values, outliers>>
    /\ UNCHANGED <<levVars, appVars>>

\* a fresh profile of the cleaned rows
Reanalyze ==
    /\ pc = "cleaned"
    /\ result2' = analyzeDataset(cleaned, settings)
    /\ pc' = IF result2'.threw THEN "rethrew" ELSE "reanalyzed"
    /\ UNCHANGED <<data, settings, result, cleaned, cleaned2, val, once, twice, values, outliers>>
    /\ UNCHANGED <<levVars, appVars>>

\* the cleaned rows cleaned again
Reclean ==
    /\ pc = "reanalyzed"
    /\ cleaned2' = performAutoClean(cleaned, result2.stats)
    /\ pc' = "recleaned"
    /\ UNCHANGED <<data, settings, result, cleaned, result2, val, once, twice, values, outliers>>
    /\ UNCHANGED <<levVars, appVars>>

Next == Analyze \/ AutoClean \/ Reanalyze \/ Reclean

Spec == Init /\ [][Next]_vars

NormInit ==
    /\ pc = "value"
    /\ val \in Values
    /\ once = Null
    /\ twice = Null
    /\ data = <<>>
    /\ settings = [outlierSensitivity |-> "Medium"]
    /\ result = NoResult
    /\ cleaned = <<>>
    /\ result2 = NoResult
    /\ cleaned2 = <<>>
    /\ values = <<>>
    /\ outliers = <<>>
    /\ NoWords
    /\ AppMounted
    /\ apiKey = FALSE

Normalize ==
    /\ pc = "value"
    /\ once' = normalizeValue(val)
    /\ pc' = "normalized"
    /\ UNCHANGED <<data, settings, result, cleaned, result2, cleaned2, val, twice, values, outliers>>
    /\ UNCHANGED <<levVars, appVars>>

NormalizeAgain ==
    /\ pc = "normalized"
    /\ twice' = normalizeValue(once)
    /\ pc' = "renormalized"
    /\ UNCHANGED <<data, settings, result, cleaned, result2, cleaned2, val, once, values, outliers>>
    /\ UNCHANGED <<levVars, appVars>>

NormNext == Normalize \/ NormalizeAgain

NormSpec == NormInit /\ [][NormNext]_vars

OutlierInit ==
    /\ pc = "sample"
    /\ values \in Samples
    /\ settings \in Settings
    /\ outliers = <<>>
    /\ data = <<>>
    /\ result = NoResult
    /\ cleaned = <<>>
    /\ result2 = NoResult
    /\ cleaned2 = <<>>
    /\ val = Null
    /\ once = Null
    /\ twice = Null
    /\ NoWords
    /\ AppMounted
    /\ apiKey = FALSE

\* const outliers = findOutliers(nums, settings.outlierSensitivity)
FindOutliers ==
    /\ pc = "sample"
    /\ outliers' = findOutliers(values, settings.outlierSensitivity)
    /\ pc' = "fenced"
    /\ UNCHANGED <<data, settings, result, cleaned, result2, cleaned2, val, once, twice,
                   values>>
    /\ UNCHANGED <<levVars, appVars>>

OutlierSpec == OutlierInit /\ [][FindOutliers]_vars

LevInit ==
    /\ pc = "words"
    /\ word1 \in Words
    /\ word2 \in Words
    /\ distance = 0
    /\ data = <<>>
    /\ settings = [outlierSensitivity |-> "Medium"]
    /\ result = NoResult
    /\ cleaned = <<>>
    /\ result2 = NoResult
    /\ cleaned2 = <<>>
    /\ val = Null
    /\ once = Null
    /\ twice = Null
    /\ values = <<>>
    /\ outliers = <<>>
    /\ AppMounted
    /\ apiKey = FALSE

\* const dist = levenshteinDistance(distinctNorm[i], distinctNorm[j])
Distance ==
    /\ pc = "words"
    /\ distance' = levenshteinDistance(word1, word2)
    /\ pc' = "measured"
    /\ UNCHANGED <<data, settings, result, cleaned, result2, cleaned2, val, once, twice,
                   values, outliers, word1, word2>>
    /\ UNCHANGED appVars

LevSpec == LevInit /\ [][Distance]_vars

AppInit ==
    /\ pc = "app"
    /\ AppMounted
    /\ settings = [autoClean |-> FALSE, strictMode |-> FALSE, outlierSensitivity |-> "Medium"]
    /\ apiKey \in BOOLEAN
    /\ data = <<>>
    /\ result = NoResult
    /\ cleaned = <<>>
    /\ result2 = NoResult
    /\ cleaned2 = <<>>
    /\ val = Null
    /\ once = Null
    /\ twice = Null
    /\ values = <<>>
    /\ outliers = <<>>
    /\ NoWords

\* handleDataLoaded, called by UploadSection, which is rendered in step 1
HandleDataLoaded(file) ==
    /\ step = 1
    /\ rawData' = file.data
    /\ fileName' = file.name
    /\ UNCHANGED <<pc, data, settings, result, cleaned, result2, cleaned2, val, once, twice,
                   values, outliers, levVars>>
    /\ UNCHANGED <<step, cleanedData, stats, cleaningPlan, loadingPlan, calls, runs, apiKey>>

\* setSettings, called by UploadSection
SetSettings(next) ==
    /\ step = 1
    /\ next # settings
    /\ settings' = next
    /\ UNCHANGED <<pc, data, result, cleaned, result2, cleaned2, val, once, twice,
                   values, outliers, levVars, appVars>>

\* A click on Analyze Data, which is rendered in step 1 when rawData is not
\* empty: runAnalysis up to its await.  An exception of analyzeDataset
\* rejects runAnalysis's promise before any state is set.
RunAnalysis ==
    /\ step = 1
    /\ Len(rawData) # 0
    /\ runs < MaxRuns
    /\ runs' = runs + 1
    /\ LET analysis == analyzeDataset(rawData, settings)
       IN  IF analysis.threw
           THEN UNCHANGED <<step, cleanedData, stats, loadingPlan, calls>>
           ELSE /\ stats' = [defined |-> TRUE, value |-> analysis.stats]
                /\ step' = 2
                /\ cleanedData' = IF settings.autoClean
                                   THEN [defined |-> TRUE,
                                         value |-> performAutoClean(rawData, analysis.stats)]
                                   ELSE JsNull
                /\ loadingPlan' = TRUE
                /\ calls' = Append(calls, analysis.stats)
    /\ UNCHANGED <<pc, data, settings, result, cleaned, result2, cleaned2, val, once, twice,
                   values, outliers, levVars>>
    /\ UNCHANGED <<rawData, fileName, cleaningPlan, apiKey>>

\* generateCleaningPlan(calls[i]) fulfils, with the parsed response or with
\* the fallback of its catch, and runAnalysis resumes after its await
PlanArrives(i, fallback) ==
    /\ i \in 1..Len(calls)
    /\ apiKey
    /\ cleaningPlan' = [defined |-> TRUE, stats |-> calls[i], fallback |-> fallback]
    /\ loadingPlan' = FALSE
    /\ calls' = SubSeq(calls, 1, i - 1) \o SubSeq(calls, i + 1, Len(calls))
    /\ UNCHANGED <<pc, data, settings, result, cleaned, result2, cleaned2, val, once, twice,
                   values, outliers, levVars>>
    /\ UNCHANGED <<step, rawData, fileName, cleanedData, stats, runs, apiKey>>

\* generateCleaningPlan(calls[i]) rejects, the API key missing, and
\* runAnalysis resumes in its catch
PlanFails(i) ==
    /\ i \in 1..Len(calls)
    /\ ~apiKey
    /\ loadingPlan' = FALSE
    /\ calls' = SubSeq(calls, 1, i - 1) \o SubSeq(calls, i + 1, Len(calls))
    /\ UNCHANGED <<pc, data, settings, result, cleaned, result2, cleaned2, val, once, twice,
                   values, outliers, levVars>>
    /\ UNCHANGED <<step, rawData, fileName, cleanedData, stats, cleaningPlan, runs, apiKey>>

\* a click on Start Over, which is rendered when step > 1
StartOver ==
    /\ step > 1
    /\ step' = 1
    /\ rawData' = <<>>
    /\ stats' = JsNull
    /\ cleaningPlan' = JsNull
    /\ UNCHANGED <<pc, data, settings, result, cleaned, result2, cleaned2, val, once, twice,
                   values, outliers, levVars>>
    /\ UNCHANGED <<fileName, cleanedData, loadingPlan, calls, runs, apiKey>>

AppNext ==
    \/ \E file \in Uploads : HandleDataLoaded(file)
    \/ \E next \in AppSettings : SetSettings(next)
    \/ RunAnalysis
    \/ \E i \in 1..MaxRuns : \E fallback \in BOOLEAN : PlanArrives(i, fallback)
    \/ \E i \in 1..MaxRuns : PlanFails(i)
    \/ StartOver

AppSpec == AppInit /\ [][AppNext]_vars

-----------------------------------------------------------------------------
(* Properties *)

\* the profile of column h
ColumnIndices == 1..Len(result.stats.columns)
Column(h) == result.stats.columns[h]

\* the rows of data that the rows of cleaned come from, in the same order
SourceRows == pick(data, keptIndices(normalizedRowsOf(data)))

HasIssueOfType(col, type) == \E n \in 1..Len(col.issues) : col.issues[n].type = type

\* a row as a mapping from column names to values, whatever the key order
RowMapping(row) == {row[j] : j \in 1..Len(row)}

\* C1: cleaning the cleaned rows again, with a fresh profile of them, returns
\* the same rows in the same order with the same cell values.
RecleanIsNoOp == pc = "recleaned" => cleaned2 = cleaned

\* the four rows {age:"30"}, {age:"31"}, {age:"thirty"}, {age:null}
Scenario == TallyTable(2, 1, 1)

ScenarioAnalyzed == pc = "analyzed" /\ data = Scenario

\* C2, as stated: the scenario's age column infers number, with missingCount 1
\* and a mixed_types issue of count 1 whose example is "thirty".
ScenarioInfersNumber ==
    ScenarioAnalyzed =>
        /\ Column(1).inferredType = "number"
        /\ Column(1).missingCount = 1
        /\ \E n \in 1..Len(Column(1).issues) :
              /\ Column(1).issues[n].type = "mixed_types"
              /\ Column(1).issues[n].count = 1
              /\ Column(1).issues[n].examples = <<THIRTY>>

\* C2, amended: two of the three defined cells are numeric, which is not more
\* than 80%, so the scenario's age column infers string, with missingCount 1
\* and no mixed_types issue.
ScenarioInfersString ==
    ScenarioAnalyzed =>
        /\ Len(result.stats.columns) = 1
        /\ Column(1).name = AGE
        /\ Column(1).inferredType = "string"
        /\ Column(1).missingCount = 1
        /\ ~HasIssueOfType(Column(1), "mixed_types")

\* C3: no two rows of performAutoClean's output are equal.
CleanedRowsDistinct ==
    pc = "cleaned" =>
        \A p, q \in 1..Len(cleaned) :
            p < q => RowMapping(cleaned[p]) # RowMapping(cleaned[q])

\* C4: in a number column of the output, a cell whose input passes isNumber is
\* a finite number, a cell whose input fails it is null, and no cell is
\* anything else.
NumberCellsParsedOrNull ==
    pc = "cleaned" =>
        LET source == SourceRows
        IN  \A h \in ColumnIndices : \A p \in 1..Len(cleaned) :
                Column(h).inferredType = "number" =>
                    IF isNumber(normalizeValue(Get(source[p], Column(h).name)))
                    THEN Get(cleaned[p], Column(h).name).k \in {"number", "fraction"}
                    ELSE Get(cleaned[p], Column(h).name).k = "null"

\* C5: analyzeDataset returns for every non-empty row set.
AnalyzeNeverRaises == (pc # "loaded" /\ Len(data) > 0) => ~result.threw

\* C6: normalizeValue(normalizeValue(v)) = normalizeValue(v).
NormalizeIdempotent == pc = "renormalized" => twice = once

NormalizedTwiceTrimmed ==
    /\ pc = "renormalized"
    /\ val.k = "string"
    /\ once.k = "string"
    /\ once.s # val.s

\* the cells of column h that pass isNumber, among its defined cells
DefinedCount(h) ==
    Cardinality({i \in 1..Len(data) :
        normalizeValue(Get(data[i], Column(h).name)).k # "null"})

NumericCount(h) ==
    Cardinality({i \in 1..Len(data) :
        /\ normalizeValue(Get(data[i], Column(h).name)).k # "null"
        /\ isNumber(normalizeValue(Get(data[i], Column(h).name)))})

\* C7: a column with exactly 81% of its defined cells numeric infers number and
\* has a mixed_types issue counting the other 19%; a column with exactly 80%
\* does not infer number.
ThresholdIsStrict ==
    pc = "analyzed" =>
        \A h \in ColumnIndices :
            /\ (DefinedCount(h) > 0 /\ 100 * NumericCount(h) = 81 * DefinedCount(h)) =>
                  /\ Column(h).inferredType = "number"
                  /\ \E n \in 1..Len(Column(h).issues) :
                        /\ Column(h).issues[n].type = "mixed_types"
                        /\ Column(h).issues[n].count = DefinedCount(h) - NumericCount(h)
            /\ (DefinedCount(h) > 0 /\ 100 * NumericCount(h) = 80 * DefinedCount(h)) =>
                  Column(h).inferredType # "number"

EightyOnePercentAnalyzed ==
    /\ pc = "analyzed"
    /\ DefinedCount(1) = 100
    /\ NumericCount(1) = 81
    /\ Column(1).inferredType = "number"

\* C8: rows that map the same column names to the same values are counted as
\* duplicates, whatever the order of their keys.
DuplicatesIgnoreKeyOrder ==
    pc = "analyzed" =>
        result.stats.duplicateRows =
            Len(data) - Cardinality({RowMapping(data[i]) : i \in 1..Len(data)})

MissingCountConserved ==
    pc = "analyzed" =>
        /\ result.stats.totalMissingCells =
              SumSeq([h \in ColumnIndices |-> Column(h).missingCount])
        /\ \A h \in ColumnIndices :
              Column(h).missingCount = Len(data) - DefinedCount(h)

MissingInTwoColumns ==
    /\ pc = "analyzed"
    /\ Len(result.stats.columns) = 2
    /\ Column(1).missingCount > 0
    /\ Column(2).missingCount > 0
    /\ result.stats.totalMissingCells > Column(1).missingCount

\* the serializations of the rows of data, in row order
RowTexts == jsonTextsOf(data)

\* C11: for a profile of rowCount > 0 rows, 0 <= duplicateRows < rowCount,
\* duplicateRows is rowCount minus the number of distinct row serializations,
\* and duplicateRows = 0 exactly when all row serializations are distinct.
DuplicateCountBound ==
    (pc = "analyzed" /\ Len(data) > 0) =>
        LET texts == RowTexts
            firsts == {i \in 1..Len(texts) : \A j \in 1..(i - 1) : texts[j] # texts[i]}
        IN  /\ result.stats.rowCount = Len(data)
            /\ result.stats.duplicateRows >= 0
            /\ result.stats.duplicateRows < result.stats.rowCount
            /\ result.stats.duplicateRows = result.stats.rowCount - Cardinality(firsts)
            /\ result.stats.duplicateRows = 0 <=>
                  \A i, j \in 1..Len(texts) : i < j => texts[i] # texts[j]

SomeRowsDuplicated ==
    /\ pc = "analyzed"
    /\ result.stats.rowCount = 3
    /\ result.stats.duplicateRows = 1

\* twice the multiplier the claim states: 3.0 / 1.5 / 1.0 for Low / Medium / High
StatedMultiplier2 ==
    CASE settings.outlierSensitivity = "Low" -> 6
      [] settings.outlierSensitivity = "Medium" -> 3
      [] settings.outlierSensitivity = "High" -> 2

\* the values of the sample outside the stated fence, with Q1 and Q3 taken at
\* floor(n * 0.25) and floor(n * 0.75) of the sample sorted ascending
OutsideStatedFence ==
    LET sorted == SortAsc(values)
        n == Len(values)
        q1 == sorted[(n \div 4) + 1]
        q3 == sorted[((3 * n) \div 4) + 1]
        outside(v) == \/ 2 * v < 2 * q1 - StatedMultiplier2 * (q3 - q1)
                      \/ 2 * v > 2 * q3 + StatedMultiplier2 * (q3 - q1)
    IN  SelectSeq(values, outside)

\* C12, as stated: for every sample, findOutliers returns exactly the values
\* outside the fence.
FenceForEverySample == pc = "fenced" => outliers = OutsideStatedFence

\* C12, amended: for a sample of at least 5 values findOutliers returns exactly
\* the values outside the fence, for a smaller sample it returns none; for
\* [1,2,3,4,5,6,7,8,9,100] at Medium it returns exactly [100].
FenceFromFiveSamples ==
    pc = "fenced" =>
        /\ Len(values) >= 5 => outliers = OutsideStatedFence
        /\ Len(values) < 5 => outliers = <<>>
        /\ (values = TEN_SAMPLE /\ settings.outlierSensitivity = "Medium") =>
              outliers = <<100>>

TenSampleFenced ==
    /\ pc = "fenced"
    /\ values = TEN_SAMPLE
    /\ settings.outlierSensitivity = "Medium"
    /\ outliers = <<100>>

\* the distinct lower-cased, trimmed keys of column h
LowerKeysOf(h) ==
    {LowerKey(ToText(normalizeValue(Get(data[i], Column(h).name)))) :
        i \in {r \in 1..Len(data) :
                  normalizeValue(Get(data[r], Column(h).name)).k # "null"}}

\* the fuzzy issues of column h: inconsistent_category issues of severity Low
FuzzyIssuesOf(h) ==
    {n \in 1..Len(Column(h).issues) :
        /\ Column(h).issues[n].type = "inconsistent_category"
        /\ Column(h).issues[n].severity = "Low"}

\* C13: a string column whose distinct lower-cased keys are "manager" and
\* "managers" has one fuzzy issue (inconsistent_category, Low) reporting one
\* cluster that holds both keys; a string column whose distinct keys are "cat"
\* and "bat" has no fuzzy issue.
FuzzyBoundary ==
    pc = "analyzed" =>
        \A h \in ColumnIndices :
            Column(h).inferredType = "string" =>
                /\ LowerKeysOf(h) = {MANAGER, MANAGERS} =>
                      /\ Cardinality(FuzzyIssuesOf(h)) = 1
                      /\ \A n \in FuzzyIssuesOf(h) :
                            /\ Column(h).issues[n].count = 1
                            /\ Column(h).issues[n].examples \in
                                  { <<MANAGER \o APPROX \o MANAGERS>>,
                                    <<MANAGERS \o APPROX \o MANAGER>> }
                /\ LowerKeysOf(h) = {CAT, BAT} => FuzzyIssuesOf(h) = {}

ManagersClustered ==
    /\ pc = "analyzed"
    /\ Len(result.stats.columns) = 1
    /\ Column(1).inferredType = "string"
    /\ LowerKeysOf(1) = {MANAGER, MANAGERS}
    /\ FuzzyIssuesOf(1) # {}

CatAndBatApart ==
    /\ pc = "analyzed"
    /\ Len(result.stats.columns) = 1
    /\ Column(1).inferredType = "string"
    /\ LowerKeysOf(1) = {CAT, BAT}
    /\ FuzzyIssuesOf(1) = {}

\* C14: analyzeDataset and performAutoClean leave their arguments as they
\* were: no call changes the rows or the settings it was given, and
\* performAutoClean does not change the profile it was given.
ArgumentsUnchanged ==
    [][ /\ data' = data
        /\ settings' = settings
        /\ pc \in {"analyzed", "cleaned", "reanalyzed"} => result' = result
        /\ pc \in {"cleaned", "reanalyzed"} => cleaned' = cleaned
        /\ pc = "reanalyzed" => result2' = result2 ]_vars

CleanedApartFromInput ==
    /\ pc = "cleaned"
    /\ cleaned # data
    /\ \E h \in ColumnIndices :
          /\ Column(h).inferredType = "number"
          /\ Column(h).numericStats.defined

\* C15: analyzeDataset on an empty row list returns rowCount = 0,
\* columnCount = 0, totalMissingCells = 0, duplicateRows = 0 and an empty
\* columns list, and does not raise.
EmptyInputZeroProfile ==
    (pc \in {"analyzed", "threw"} /\ data = <<>>) =>
        /\ ~result.threw
        /\ result.stats.rowCount = 0
        /\ result.stats.columnCount = 0
        /\ result.stats.totalMissingCells = 0
        /\ result.stats.duplicateRows = 0
        /\ result.stats.columns = <<>>

EmptyInputAnalyzed == pc = "analyzed" /\ data = <<>>

\* the serializations of the normalized rows of data, in row order
NormalizedRowTexts == jsonTextsOf(normalizedRowsOf(data))

\* C16: the rows of performAutoClean's output are, in the original relative
\* order, the input rows whose normalized serialization occurs at no earlier
\* index, each one cleaned as it would be alone.
FirstOccurrencesInOrder ==
    pc = "cleaned" =>
        LET texts == NormalizedRowTexts
            firsts == {i \in 1..Len(texts) : \A j \in 1..(i - 1) : texts[j] # texts[i]}
            nth(p) == CHOOSE i \in firsts : Cardinality({j \in firsts : j <= i}) = p
        IN  /\ Len(cleaned) = Cardinality(firsts)
            /\ \A p \in 1..Len(cleaned) :
                  cleaned[p] = performAutoClean(<<data[nth(p)]>>, result.stats)[1]

LaterDuplicateRemoved ==
    /\ pc = "cleaned"
    /\ Len(data) = 3
    /\ Len(cleaned) = 2
    /\ data[1] # data[3]
    /\ NormalizedRowTexts[1] = NormalizedRowTexts[3]
    /\ cleaned[1] # cleaned[2]

\* the defined cells of column h that pass a classifier, counted one
\* classifier at a time
DefinedCells(h) == definedValuesOf(data, Column(h).name)

\* C17: the numeric, date and boolean tallies each count every defined cell
\* that passes that classifier, so the inferred type of a column is the one
\* chosen from the three full counts.
TalliesIndependent ==
    pc = "analyzed" =>
        \A h \in ColumnIndices :
            LET defined == DefinedCells(h)
                passing(n) ==
                    [number |-> isNumber(defined[n]),
                     date |-> isDate(defined[n]),
                     boolean |-> isBooleanLiteral(defined[n])]
            IN  Column(h).inferredType =
                    inferType(Cardinality({n \in 1..Len(defined) : passing(n).number}),
                              Cardinality({n \in 1..Len(defined) : passing(n).date}),
                              Cardinality({n \in 1..Len(defined) : passing(n).boolean}),
                              Len(defined))

\* the sample the claim describes for column h: the defined cells that pass
\* isNumber, each parsed after commas and the currency symbols are stripped
ClassifiedSample(h) ==
    LET numeric == SelectSeq(DefinedCells(h), isNumber)
    IN  Array([n \in 1..Len(numeric) |->
                  NumberOf(StripNumberText(ToText(numeric[n]))).n])

\* C18: the numericStats of a number column are those of the sample made of
\* exactly the defined cells that pass the numeric classifier, each parsed
\* after stripping commas and the currency symbol.
NumericSampleIsClassified ==
    pc = "analyzed" =>
        \A h \in ColumnIndices :
            Column(h).inferredType = "number" =>
                Column(h).numericStats =
                    calculateNumericStats(SortAsc(ClassifiedSample(h)))

\* C19: a cell whose column key is absent from its row is counted in the
\* column's missingCount, and performAutoClean gives it the output of a null
\* cell of that column: "Unknown" in a string column, null in any other.
AbsentKeyIsNull ==
    /\ pc = "analyzed" =>
          \A h \in ColumnIndices :
              Column(h).missingCount =
                  Cardinality({i \in 1..Len(data) :
                      \/ ~HasKey(data[i], Column(h).name)
                      \/ normalizeValue(Get(data[i], Column(h).name)).k = "null"})
    /\ pc = "cleaned" =>
          LET source == SourceRows
          IN  \A h \in ColumnIndices : \A p \in 1..Len(cleaned) :
                  ~HasKey(source[p], Column(h).name) =>
                      Get(cleaned[p], Column(h).name) =
                          IF Column(h).inferredType = "string" THEN Str(UNKNOWN)
                          ELSE Null

\* C20: performAutoClean removes exactly the duplicates the profile counted:
\* its output has rowCount - duplicateRows rows.
CleanRemovesCountedDuplicates ==
    pc = "cleaned" =>
        Len(cleaned) = result.stats.rowCount - result.stats.duplicateRows

\* the tallies of column h as the forEach takes them: a cell is counted for the
\* first classifier it passes
Tally(h) ==
    LET defined == DefinedCells(h)
        cells == 1..Len(defined)
    IN  [defined |-> Len(defined),
         number |-> Cardinality({n \in cells : isNumber(defined[n])}),
         date |-> Cardinality({n \in cells : ~isNumber(defined[n]) /\ isDate(defined[n])}),
         boolean |-> Cardinality({n \in cells :
                        /\ ~isNumber(defined[n]) /\ ~isDate(defined[n])
                        /\ isBooleanLiteral(defined[n])})]

\* C21: a column without defined cells is string; otherwise it is number if
\* numericCount / definedCount > 0.8, else date if dateCount / definedCount >
\* 0.8, else boolean if booleanCount / definedCount > 0.8, else string, every
\* comparison being strict.
InferenceRule ==
    pc = "analyzed" =>
        \A h \in ColumnIndices :
            LET t == Tally(h)
            IN  Column(h).inferredType =
                    IF t.defined = 0 THEN "string"
                    ELSE IF 10 * t.number > 8 * t.defined THEN "number"
                    ELSE IF 10 * t.date > 8 * t.defined THEN "date"
                    ELSE IF 10 * t.boolean > 8 * t.defined THEN "boolean"
                    ELSE "string"

BooleanColumnInferred ==
    /\ pc = "analyzed"
    /\ Len(result.stats.columns) = 1
    /\ Column(1).inferredType = "boolean"
    /\ Tally(1).boolean < Tally(1).defined

IssuesOfType(h, type) == SelectSeq(Column(h).issues, LAMBDA issue : issue.type = type)

\* the positions, among the defined cells of column h, of the cells that fail
\* the classifier of the column's inferred type
Failing(h) ==
    LET defined == DefinedCells(h)
    IN  {n \in 1..Len(defined) :
            \/ Column(h).inferredType = "number" /\ ~isNumber(defined[n])
            \/ Column(h).inferredType = "date" /\ ~isDate(defined[n])}

\* C22: a column gets a mixed_types issue exactly when its inferred type is
\* number or date and the defined cells failing that type's classifier are
\* more than 5% of the defined cells; the issue is High, counts the failing
\* cells and lists the first three of them, in row order, as examples.
MixedTypesRule ==
    pc = "analyzed" =>
        \A h \in ColumnIndices :
            LET defined == DefinedCells(h)
                failing == Failing(h)
                mixed == IssuesOfType(h, "mixed_types")
            IN  IF /\ Column(h).inferredType \in {"number", "date"}
                   /\ 100 * Cardinality(failing) > 5 * Len(defined)
                THEN /\ Len(mixed) = 1
                     /\ mixed[1].severity = "High"
                     /\ mixed[1].count = Cardinality(failing)
                     /\ Len(mixed[1].examples) =
                            IF Cardinality(failing) < 3 THEN Cardinality(failing) ELSE 3
                     /\ \A e \in 1..Len(mixed[1].examples) :
                            \E n \in failing :
                                /\ Cardinality({m \in failing : m < n}) = e - 1
                                /\ mixed[1].examples[e] = ToText(defined[n])
                ELSE mixed = <<>>

FirstThreeOfFourListed ==
    /\ pc = "analyzed"
    /\ Len(result.stats.columns) = 1
    /\ Column(1).inferredType = "number"
    /\ Cardinality(Failing(1)) = 4
    /\ Len(IssuesOfType(1, "mixed_types")) = 1
    /\ IssuesOfType(1, "mixed_types")[1].examples = <<CAT, <<"a", "b">>, BAT>>

\* C23: the top categories of a string column are its ten most frequent
\* stringified defined values in descending order of count, values of equal
\* count standing in the order of their first occurrence in the rows,
\* digit-only texts included.
TopCategoriesInEncounterOrder ==
    pc = "analyzed" =>
        \A h \in ColumnIndices :
            Column(h).inferredType = "string" =>
                LET texts == definedTextsOf(DefinedCells(h))
                IN  /\ Column(h).topCategories.defined
                    /\ Column(h).topCategories.items =
                           Slice(SortByCount(countsIn(Distinct(texts), texts)),
                                 TOP_CATEGORIES)

\* the clusters of string column h, as the issue of the column reports them
FuzzyGroups(h) == fuzzyGroupsOf(DefinedCells(h))

ClustersReported(h) ==
    IF FuzzyGroups(h) = <<>> THEN FuzzyIssuesOf(h) = {}
    ELSE \E n \in FuzzyIssuesOf(h) :
            /\ Column(h).issues[n].count = Len(FuzzyGroups(h))
            /\ Column(h).issues[n].examples = joinedWith(Slice(FuzzyGroups(h), 3), APPROX)

\* C24: the fuzzy clusters of a column are pairwise disjoint, a key being the
\* anchor or a member of at most one reported cluster, and every member of a
\* cluster is within edit distance 2 of the cluster's anchor.
ClustersDisjoint ==
    pc = "analyzed" =>
        \A h \in ColumnIndices :
            Column(h).inferredType = "string" =>
                LET groups == FuzzyGroups(h)
                IN  /\ ClustersReported(h)
                    /\ \A g1, g2 \in 1..Len(groups) :
                          \A p1 \in 1..Len(groups[g1]) :
                              \A p2 \in 1..Len(groups[g2]) :
                                  groups[g1][p1] = groups[g2][p2] => g1 = g2 /\ p1 = p2
                    /\ \A g \in 1..Len(groups) :
                          \A p \in 2..Len(groups[g]) :
                              levenshteinDistance(groups[g][1], groups[g][p]) <= 2

ThreeKeysOneCluster ==
    /\ pc = "analyzed"
    /\ Len(result.stats.columns) = 1
    /\ Column(1).inferredType = "string"
    /\ FuzzyGroups(1) = << <<MANAGER, MANAGERS, MANAGED>> >>
    /\ ClustersReported(1)

\* C25: no reported fuzzy cluster holds a key of three or fewer characters,
\* in whatever order the keys are met.
NoShortKeyClustered ==
    pc = "analyzed" =>
        \A h \in ColumnIndices :
            Column(h).inferredType = "string" =>
                /\ ClustersReported(h)
                /\ \A g \in 1..Len(FuzzyGroups(h)) :
                      \A p \in 1..Len(FuzzyGroups(h)[g]) :
                          Len(FuzzyGroups(h)[g][p]) > 3

\* the numeric samples of column h: the defined cells that parseFloat reads
NumericSamples(h) == numsOf(DefinedCells(h))

\* how many values of sample lie outside [Q1 - m * IQR, Q3 + m * IQR], with m
\* = 3, 1.5, 1 for Low, Medium, High and Q1, Q3 at floor(n * 0.25) and
\* floor(n * 0.75) of the sorted sample
OutsideCount(sample, sensitivity) ==
    LET sorted == SortAsc(sample)
        n == Len(sample)
        q1 == sorted[(n \div 4) + 1]
        q3 == sorted[((3 * n) \div 4) + 1]
        m2 == CASE sensitivity = "Low" -> 6
                [] sensitivity = "Medium" -> 3
                [] sensitivity = "High" -> 2
    IN  Cardinality({p \in 1..n : \/ 2 * sample[p] < 2 * q1 - m2 * (q3 - q1)
                                  \/ 2 * sample[p] > 2 * q3 + m2 * (q3 - q1)})

\* C26: a column gets an outlier issue exactly when its inferred type is
\* number, it has more than 5 numeric samples and at least one of them is
\* outside the fence; the issue counts those samples and is Medium at High
\* sensitivity, High otherwise.  A number column of 5 or fewer samples, or of
\* equal samples, gets none.
OutlierRule ==
    pc = "analyzed" =>
        \A h \in ColumnIndices :
            LET found == IssuesOfType(h, "outlier")
                sample == NumericSamples(h)
            IN  /\ IF /\ Column(h).inferredType = "number"
                      /\ Len(sample) > 5
                      /\ OutsideCount(sample, settings.outlierSensitivity) > 0
                   THEN /\ Len(found) = 1
                        /\ found[1].count = OutsideCount(sample, settings.outlierSensitivity)
                        /\ found[1].severity =
                               IF settings.outlierSensitivity = "High" THEN "Medium" ELSE "High"
                   ELSE found = <<>>
                /\ (Len(sample) <= 5 \/ \A p \in 1..Len(sample) : sample[p] = sample[1])
                        => found = <<>>

SixSamplesOneOutside ==
    /\ pc = "analyzed"
    /\ settings.outlierSensitivity = "High"
    /\ Len(result.stats.columns) = 1
    /\ NumericSamples(1) = <<0, 3, 0, 1, 1, 0>>
    /\ Len(IssuesOfType(1, "outlier")) = 1
    /\ IssuesOfType(1, "outlier")[1].count = 1
    /\ IssuesOfType(1, "outlier")[1].severity = "Medium"

\* t comes from s by one insertion, deletion or substitution of a character
OneEdit(s, t) ==
    LET Without(w, i) == SubSeq(w, 1, i - 1) \o SubSeq(w, i + 1, Len(w))
    IN  \/ Len(t) = Len(s) /\ Cardinality({i \in 1..Len(s) : s[i] # t[i]}) = 1
        \/ Len(t) = Len(s) + 1 /\ \E i \in 1..Len(t) : Without(t, i) = s
        \/ Len(s) = Len(t) + 1 /\ \E i \in 1..Len(s) : Without(s, i) = t

\* The words within k single-character edits of s.  A shortest sequence of
\* edits between two words passes through no word longer than both of them.
RECURSIVE WithinEdits(_, _)
WithinEdits(s, k) ==
    IF k = 0 THEN {s}
    ELSE LET near == WithinEdits(s, k - 1)
         IN  near \cup {t \in Words : \E w \in near : OneEdit(w, t)}

\* the minimum number of single-character edits that turn s into t
EditDistance(s, t) ==
    CHOOSE k \in 0..MaxWord :
        /\ t \in WithinEdits(s, k)
        /\ k > 0 => t \notin WithinEdits(s, k - 1)

\* C27: levenshteinDistance(a, b) is the minimum number of single-character
\* insertions, deletions and substitutions that turn a into b; it is
\* symmetric and it is 0 exactly when a = b.
LevenshteinIsEditDistance ==
    pc = "measured" =>
        /\ distance = EditDistance(word1, word2)
        /\ distance = levenshteinDistance(word2, word1)
        /\ distance = 0 <=> word1 = word2

TwoEditsMeasured ==
    /\ pc = "measured"
    /\ word1 = <<"a", "a", "b">>
    /\ word2 = <<"b", "a">>
    /\ distance = 2

\* C28: whenever step = 2 and loadingPlan = false, cleaningPlan is null or is
\* the plan returned for the stats held in the stats state; the response of
\* an earlier run never stands in for the plan of a later run.
PlanBelongsToStats ==
    (step = 2 /\ ~loadingPlan) =>
        \/ cleaningPlan = JsNull
        \/ stats.defined /\ cleaningPlan.stats = stats.value

Returned(seq) == {seq[p] : p \in 1..Len(seq)}

SensitivityRank(sensitivity) ==
    CASE sensitivity = "Low" -> 1
      [] sensitivity = "Medium" -> 2
      [] sensitivity = "High" -> 3

\* C29: for every sample, the values findOutliers returns at Low are among
\* those it returns at Medium, and those at Medium among those at High.
SensitivityMonotone ==
    pc = "fenced" =>
        \A s \in Sensitivities :
            LET other == findOutliers(values, s)
            IN  /\ SensitivityRank(s) >= SensitivityRank(settings.outlierSensitivity)
                      => /\ Returned(outliers) \subseteq Returned(other)
                         /\ Len(outliers) <= Len(other)
                /\ SensitivityRank(s) <= SensitivityRank(settings.outlierSensitivity)
                      => /\ Returned(other) \subseteq Returned(outliers)
                         /\ Len(other) <= Len(outliers)

MediumFindsMoreThanLow ==
    /\ pc = "fenced"
    /\ settings.outlierSensitivity = "Medium"
    /\ values = <<0, 0, 1, 1, 3>>
    /\ outliers = <<3>>
    /\ findOutliers(values, "Low") = <<>>

\* C30: the count of a mixed_types issue is more than 5% and less than 20% of
\* the column's defined cells, and no string or boolean column has such an
\* issue.
MixedCountBetween ==
    pc = "analyzed" =>
        \A h \in ColumnIndices :
            LET mixed == IssuesOfType(h, "mixed_types")
                definedCount == result.stats.rowCount - Column(h).missingCount
            IN  \A n \in 1..Len(mixed) :
                    /\ 100 * mixed[n].count > 5 * definedCount
                    /\ 100 * mixed[n].count < 20 * definedCount
                    /\ Column(h).inferredType \notin {"string", "boolean"}

DateColumnMixed ==
    /\ pc = "analyzed"
    /\ Len(result.stats.columns) = 1
    /\ Column(1).inferredType = "date"
    /\ Len(IssuesOfType(1, "mixed_types")) = 1
    /\ IssuesOfType(1, "mixed_types")[1].count = 1
    /\ result.stats.rowCount - Column(1).missingCount = 6


=============================================================================
